---- MODULE Spec2Model ----
(***************************************************************************)
(* Model of the debug graph runtime, GraphRuntimeDebug                     *)
(* (infernet/src/cvm/debug/graph_runtime_debug.cc).                        *)
(*                                                                         *)
(* One host thread calls the four entry points of the dispatcher, one call *)
(* at a time.  A call is a sequence of steps; `pc` is its position.        *)
(*                                                                         *)
(* Time.  The clock is only ever used to subtract two timestamps taken in  *)
(* the same call, so a timestamp is kept as the number of clock ticks that *)
(* have passed since it was taken (since_tbegin, since_op_tbegin).  One    *)
(* tick is one millisecond.  The clock may or may not advance while the    *)
(* host waits in CVMSynchronize and between the end of the benchmark loop  *)
(* and the read of its end timestamp.                                      *)
(***************************************************************************)
EXTENDS Integers, Sequences, FiniteSets

\* ---------------------------------------------------------------- bounds
NumNodes == 2      \* N: nodes of the loaded graph
MaxOutputs == 2    \* output entries of one node
MaxDelta == 1      \* clock ticks that can pass in one wait
MaxNumber == 2     \* largest `number` a caller passes
MaxRepeat == 2     \* largest `repeat` a caller passes
MaxMinMs == 2      \* largest small `min_repeat_ms` a caller passes (INT_MAX is passed too)
MaxIter == 3       \* attempts with more iterations than this are not followed

\* ------------------------------------------------------ program constants
INT_MAX == 2147483647
INT_MIN == -2147483647 - 1

Nodes == 0 .. (NumNodes - 1)
Names == {"a", "b"}
Devices == {0, 1}
NoName == "zz"

\* Invocation counters saturate here: CallCap stands for "CallCap or more".
CallCap == 2 + MaxNumber * MaxRepeat

VARIABLES
  \* the base executor's graph, read by the debug layer
  op_execs_,       \* node -> TRUE when the slot holds a closure
  node_name,       \* node -> name
  node_row_ptr_,   \* node (and N) -> first storage entry of the node
  data_entry_,     \* storage entry -> [ctx, data]
  \* the call in progress, or the last one
  status,          \* "idle", "running", "returned", "fatal", "threw", "beyond"
  fn,              \* the name the host asked the dispatcher for
  func,            \* the function the dispatcher returned for it
  pc,              \* position inside the call
  args,            \* the decoded arguments of the call
  number,          \* RunIndividual's `number`
  i, k, index,     \* loop counters
  ctx,             \* DebugRun's local ctx
  duration_ms,
  time_per_op,
  since_tbegin, since_op_tbegin,
  rv,              \* the return slot
  dst,             \* the caller's destination tensor
  log,             \* the lines RunIndividual has logged in this call
  \* history of the call, for the properties
  calls,           \* node -> closure invocations in this call (saturating)
  trace,           \* closures invoked in the current pass, in order
  region,          \* what happened since the begin timestamp of a per-op region
  closed_region,   \* the last per-op region whose end timestamp was read
  clock_read,      \* TRUE once the call has read the clock
  failed,          \* TRUE once a closure of the call has failed
  \* history of RunIndividual's attempts
  retry,           \* TRUE when the attempt follows an attempt of the same repeat
  accepted,        \* `number` of the attempt the last report block was made of
  att_ms,          \* node -> ms measured for its closure since the attempt began
  att_calls,       \* node -> invocations of its closure since the attempt began
  discarded        \* TRUE once measured time above zero was zeroed away

graph == <<op_execs_, node_name, node_row_ptr_>>
locals == <<number, i, k, index, ctx, duration_ms, time_per_op,
            since_tbegin, since_op_tbegin>>
outs == <<rv, dst, log>>
hist == <<calls, trace, region, closed_region, clock_read>>
bench == <<retry, accepted, att_ms, att_calls, discarded>>
vars == <<graph, data_entry_, status, fn, func, pc, args, locals, outs, hist,
          failed, bench>>

\* ------------------------------------------------------------ the graph
\* node_row_ptr_ of a graph whose nodes have 1..MaxOutputs output entries each
RowPtrs ==
  { r \in [0 .. NumNodes -> 0 .. (NumNodes * MaxOutputs)] :
      /\ r[0] = 0
      /\ \A n \in Nodes : (r[n + 1] - r[n]) \in 1 .. MaxOutputs }

NumEntries == node_row_ptr_[NumNodes]
Entries == 0 .. (NumEntries - 1)

\* GraphRuntime::entry_id(nid, index): node_row_ptr_[nid] + index
entry_id(nid, idx) == node_row_ptr_[nid] + idx

\* the entries a node's closure writes: its output entries
OutputsOf(n) == { e \in Entries : node_row_ptr_[n] <= e /\ e < node_row_ptr_[n + 1] }

\* the bytes a closure computes into entry e; 0 is "not computed yet"
Computed(e) == e + 1

\* the node whose output entry e is
NodeOf(e) == CHOOSE n \in Nodes : node_row_ptr_[n] <= e /\ e < node_row_ptr_[n + 1]

\* the bytes of entry e before any run: the entries of a node without a
\* closure (an input, a parameter) are staged, the others not computed yet
Staged(e) == IF op_execs_[NodeOf(e)] THEN 0 ELSE Computed(e)

\* the device of entry e: the entries alternate between the devices
PlanCtx(e) == e % Cardinality(Devices)

\* op_execs_[n](): the closure computes the node's outputs into its entries
RunClosure(data, n) ==
  [e \in DOMAIN data |->
     IF e \in OutputsOf(n) THEN [data[e] EXCEPT !.data = Computed(e)] ELSE data[e]]

\* the full forward pass GraphRuntime::Run(): every closure, in list order
RECURSIVE RunFrom(_, _)
RunFrom(data, n) ==
  IF n >= NumNodes THEN data
  ELSE RunFrom(IF op_execs_[n] THEN RunClosure(data, n) ELSE data, n + 1)

Inc(c) == IF c < CallCap THEN c + 1 ELSE CallCap

NoArgs ==
  [index |-> 0, eid |-> 0, by_name |-> FALSE, name |-> "", number |-> 0,
   repeat |-> 0, min_repeat_ms |-> 0]
NoFunc == [owner |-> "", op |-> ""]
NoRv == [kind |-> "none", val |-> 0]
NoDst == [written |-> FALSE, data |-> 0]
NoRegion == [valid |-> FALSE, idx |-> 0, events |-> <<>>]
Ev(e, a) == [ev |-> e, arg |-> a]

Init ==
  /\ op_execs_ \in [Nodes -> BOOLEAN]
  /\ node_name \in [Nodes -> Names]
  /\ node_row_ptr_ \in RowPtrs
  /\ data_entry_ = [e \in Entries |-> [ctx |-> PlanCtx(e), data |-> Staged(e)]]
  /\ status = "idle" /\ fn = "" /\ func = NoFunc /\ pc = "" /\ args = NoArgs
  /\ number = 0 /\ i = 0 /\ k = 0 /\ index = 0 /\ ctx = 0
  /\ duration_ms = 0 /\ time_per_op = [n \in Nodes |-> [num |-> 0, den |-> 1]]
  /\ since_tbegin = 0 /\ since_op_tbegin = 0
  /\ rv = NoRv /\ dst = NoDst /\ log = <<>>
  /\ calls = [n \in Nodes |-> 0] /\ trace = <<>> /\ region = <<>>
  /\ closed_region = NoRegion /\ clock_read = FALSE
  /\ failed = FALSE /\ retry = FALSE /\ accepted = 0
  /\ att_ms = [n \in Nodes |-> 0] /\ att_calls = [n \in Nodes |-> 0]
  /\ discarded = FALSE

\* ------------------------------------------------------ the dispatcher
\* lines 165-181: the names GetFunction compares with
DebugNames == {"debug_run", "get_output_by_layer", "debug_get_output", "run_individual"}

\* names the base executor's dispatcher knows, and a name nobody knows
BaseNames == {"set_input", "run"}
NoFn == "zz"
FnArgs == DebugNames \cup BaseNames \cup {NoFn}

\* GraphRuntime::GetFunction(name, sptr_to_self): the base executor's function
\* of that name, or the null function for a name it does not know
BaseGetFunction(name) ==
  IF name \in BaseNames THEN [owner |-> "base", op |-> name]
  ELSE [owner |-> "null", op |-> ""]

\* variant of lines 165-193 that answers "run" with DebugRun
GetFunctionShadow(name) ==
  IF name = "debug_run" \/ name = "run" THEN [owner |-> "debug", op |-> "debug_run"]
  ELSE IF name = "get_output_by_layer" THEN [owner |-> "debug", op |-> "get_output_by_layer"]
  ELSE IF name = "debug_get_output" THEN [owner |-> "debug", op |-> "debug_get_output"]
  ELSE IF name = "run_individual" THEN [owner |-> "debug", op |-> "run_individual"]
  ELSE BaseGetFunction(name)

\* lines 165-193: the function GetFunction returns for a name
GetFunction(name) ==
  IF name = "debug_run" THEN [owner |-> "debug", op |-> "debug_run"]
  ELSE IF name = "get_output_by_layer" THEN [owner |-> "debug", op |-> "get_output_by_layer"]
  ELSE IF name = "debug_get_output" THEN [owner |-> "debug", op |-> "debug_get_output"]
  ELSE IF name = "run_individual" THEN [owner |-> "debug", op |-> "run_individual"]
  ELSE BaseGetFunction(name)

\* A host call of the debug operation f: GetFunction returns its PackedFunc,
\* the arguments are decoded and the operation starts at p.
Call(f, a, p) ==
  /\ status = "idle"
  /\ GetFunction(f) = [owner |-> "debug", op |-> f]
  /\ status' = "running" /\ fn' = f /\ func' = GetFunction(f) /\ args' = a /\ pc' = p
  /\ UNCHANGED <<graph, data_entry_, locals, outs, hist, failed, bench>>

\* lines 191-193: the host asks for a name that is none of the four; what
\* GetFunction returns is handed to the host, whose use of it is the base
\* executor's business.
CallOther ==
  /\ status = "idle"
  /\ \E nm \in FnArgs \ DebugNames :
       fn' = nm /\ func' = GetFunction(nm)
  /\ status' = "returned" /\ pc' = "" /\ args' = NoArgs
  /\ UNCHANGED <<graph, data_entry_, locals, outs, hist, failed, bench>>

\* The host takes the result of the ended call; nothing of the call is left
\* but what its closures wrote into the storage entries.
HostReturn ==
  /\ status \notin {"idle", "running"}
  /\ status' = "idle" /\ fn' = "" /\ func' = NoFunc /\ args' = NoArgs /\ pc' = ""
  /\ number' = 0 /\ i' = 0 /\ k' = 0 /\ index' = 0 /\ ctx' = 0
  /\ duration_ms' = 0 /\ time_per_op' = [n \in Nodes |-> [num |-> 0, den |-> 1]]
  /\ since_tbegin' = 0 /\ since_op_tbegin' = 0
  /\ rv' = NoRv /\ dst' = NoDst /\ log' = <<>>
  /\ calls' = [n \in Nodes |-> 0] /\ trace' = <<>> /\ region' = <<>>
  /\ closed_region' = NoRegion /\ clock_read' = FALSE
  /\ failed' = FALSE /\ retry' = FALSE /\ accepted' = 0
  /\ att_ms' = [n \in Nodes |-> 0] /\ att_calls' = [n \in Nodes |-> 0]
  /\ discarded' = FALSE
  /\ UNCHANGED <<graph, data_entry_>>

\* the call ends: s is "returned", "fatal" (a failed CHECK or LOG(FATAL)),
\* "threw" (a closure failed), "crashed" (undefined behaviour ended the
\* process) or "beyond" (outside the model's bounds)
End(s) == status' = s /\ pc' = ""

\* variant in which the failure of a closure is caught and the call goes on
ThrowSwallowed == failed' = TRUE /\ UNCHANGED <<status, pc>>

\* lines 32, 75, 147 (and the warm-up of line 55): a closure fails; no
\* function of the debug layer has a handler, so the failure leaves the call
Throw == failed' = TRUE /\ End("threw")

\* static_cast<size_t>(x) < n for a signed x and a container size n: a
\* negative x converts to a value above every container size
SizeTLess(x, n) == x >= 0 /\ x < n

\* ------------------------------------------------------------ DebugRun
IndexArgs == -1 .. NumNodes

\* line 28: CHECK(index < op_execs_.size())
DebugRunCheck(idx) == SizeTLess(idx, NumNodes)

\* line 29: the device DebugRun syncs, data_entry_[entry_id(index, 0)]->ctx
DebugRunCtx(idx) == data_entry_[entry_id(idx, 0)].ctx

CallDebugRun ==
  \E idx \in IndexArgs : Call("debug_run", [NoArgs EXCEPT !.index = idx], "dr_check")

\* lines 28-30: the CHECK, the ctx, the begin timestamp
DR_Begin ==
  /\ status = "running" /\ pc = "dr_check"
  /\ IF DebugRunCheck(args.index)
       THEN /\ ctx' = DebugRunCtx(args.index)
            /\ since_tbegin' = 0 /\ clock_read' = TRUE /\ region' = <<>>
            /\ index' = args.index
            /\ pc' = "dr_op" /\ UNCHANGED status
       ELSE /\ End("fatal")
            /\ UNCHANGED <<ctx, since_tbegin, clock_read, region, index>>
  /\ UNCHANGED <<graph, data_entry_, fn, func, args, number, i, k, duration_ms,
                 time_per_op, since_op_tbegin, outs, calls, trace, closed_region,
                 failed, bench>>

\* lines 31-33: the closure, when the slot holds one; it returns or fails
DR_Op ==
  /\ status = "running" /\ pc = "dr_op"
  /\ IF op_execs_[index]
       THEN \E ok \in BOOLEAN :
              /\ calls' = [calls EXCEPT ![index] = Inc(@)]
              /\ trace' = Append(trace, index)
              /\ region' = Append(region, Ev("call", index))
              /\ IF ok
                   THEN /\ data_entry_' = RunClosure(data_entry_, index)
                        /\ pc' = "dr_sync" /\ UNCHANGED <<status, failed>>
                   ELSE /\ Throw /\ UNCHANGED data_entry_
       ELSE /\ pc' = "dr_sync"
            /\ UNCHANGED <<status, data_entry_, calls, trace, region, failed>>
  /\ UNCHANGED <<graph, fn, func, args, locals, outs, closed_region, clock_read,
                 bench>>

\* line 34: CVMSynchronize(ctx.device_type, ctx.device_id, nullptr)
DR_Sync ==
  /\ status = "running" /\ pc = "dr_sync"
  /\ \E d \in 0 .. MaxDelta : since_tbegin' = since_tbegin + d
  /\ region' = Append(region, Ev("sync", ctx))
  /\ pc' = "dr_tend"
  /\ UNCHANGED <<graph, data_entry_, status, fn, func, args, number, i, k, index, ctx,
                 duration_ms, time_per_op, since_op_tbegin, outs, calls, trace,
                 closed_region, clock_read, failed, bench>>

\* variant of lines 36-38 that returns zero for a slot without a closure
DebugRunTimeZero(idx, t) == IF op_execs_[idx] THEN t ELSE 0

\* lines 36-38: the elapsed time DebugRun(idx) returns (kept in ticks),
\* t ticks after tbegin
DebugRunTime(idx, t) == t

\* lines 35-38: the end timestamp and the elapsed time
DR_End ==
  /\ status = "running" /\ pc = "dr_tend"
  /\ clock_read' = TRUE
  /\ closed_region' = [valid |-> TRUE, idx |-> index, events |-> region]
  /\ rv' = [kind |-> "double", val |-> DebugRunTime(index, since_tbegin)]
  /\ End("returned")
  /\ UNCHANGED <<graph, data_entry_, fn, func, args, locals, dst, log, calls, trace,
                 region, failed, bench>>

\* ---------------------------------------------------- GetOutputByLayer
EidArgs == 0 .. (MaxOutputs - 1)

CallGetOutputByLayer ==
  \E idx \in IndexArgs, e \in EidArgs :
    Call("get_output_by_layer", [NoArgs EXCEPT !.index = idx, !.eid = e], "gl_body")

\* lines 105-107: return data_entry_[entry_id(index, eid)], with no check of
\* either subscript.  node_row_ptr_ has N + 1 elements and data_entry_ has
\* NumEntries; a subscript outside them is undefined behaviour: the call
\* crashes, or it returns whatever the out-of-bounds read finds.
GetOutputByLayerDefined(idx, e) ==
  /\ idx \in 0 .. NumNodes
  /\ entry_id(idx, e) \in Entries

\* variant of line 106 that returns the node's first output entry
GetOutputByLayerFirst(idx, e) == entry_id(idx, 0)

\* line 106: the entry GetOutputByLayer(index, eid) returns a handle to
GetOutputByLayer(idx, e) == entry_id(idx, e)

GL_Body ==
  /\ status = "running" /\ pc = "gl_body"
  /\ IF GetOutputByLayerDefined(args.index, args.eid)
       THEN /\ rv' = [kind |-> "tensor", val |-> GetOutputByLayer(args.index, args.eid)]
            /\ End("returned")
       ELSE \/ /\ rv' = [kind |-> "garbage", val |-> 0]
               /\ End("returned")
            \/ /\ UNCHANGED rv
               /\ End("crashed")
  /\ UNCHANGED <<graph, data_entry_, fn, func, args, locals, dst, log, hist,
                 failed, bench>>

\* -------------------------------------------------------- GetNodeIndex
NameArgs == Names \cup {NoName}

\* lines 123-129: the scan from nid; -1 stands for the LOG(FATAL) after it
RECURSIVE ScanNodes(_, _)
ScanNodes(name, nid) ==
  IF nid >= NumNodes THEN -1
  ELSE IF node_name[nid] = name THEN nid
  ELSE ScanNodes(name, nid + 1)

\* variant of the scan that returns the last match
RECURSIVE ScanNodesDown(_, _)
ScanNodesDown(name, nid) ==
  IF nid < 0 THEN -1
  ELSE IF node_name[nid] = name THEN nid
  ELSE ScanNodesDown(name, nid - 1)

GetNodeIndexLast(name) == ScanNodesDown(name, NumNodes - 1)

GetNodeIndex(name) == ScanNodes(name, 0)

\* -------------------------------------------------- DebugGetNodeOutput
\* line 143: CHECK_LT(static_cast<size_t>(index), op_execs_.size())
DebugGetCheck(idx) == SizeTLess(idx, NumNodes)

\* line 144: uint32_t eid = index
DebugGetEid(idx) == idx

\* variant of line 148 that leaves the loop one turn late
DebugGetBreakLate(ii, idx) == ii = idx + 1

\* line 148: if (static_cast<int>(i) == index) break
DebugGetBreak(ii, idx) == ii = idx

CallDebugGetOutput ==
  \/ \E idx \in IndexArgs :
       Call("debug_get_output", [NoArgs EXCEPT !.index = idx], "dg_check")
  \/ \E nm \in NameArgs :
       Call("debug_get_output", [NoArgs EXCEPT !.by_name = TRUE, !.name = nm],
            "dg_check")

\* lines 175-179 and 143: a string selector goes through GetNodeIndex, then
\* the CHECK of the index
DG_Begin ==
  /\ status = "running" /\ pc = "dg_check"
  /\ LET idx == IF args.by_name THEN GetNodeIndex(args.name) ELSE args.index
     IN IF args.by_name /\ idx = -1
          THEN End("fatal") /\ UNCHANGED <<index, i>>
          ELSE IF DebugGetCheck(idx)
            THEN index' = idx /\ i' = 0 /\ pc' = "dg_loop" /\ UNCHANGED status
            ELSE End("fatal") /\ UNCHANGED <<index, i>>
  /\ UNCHANGED <<graph, data_entry_, fn, func, args, number, k, ctx, duration_ms,
                 time_per_op, since_tbegin, since_op_tbegin, outs, hist,
                 failed, bench>>

\* lines 146-149: one turn of the loop
DG_Step ==
  /\ status = "running" /\ pc = "dg_loop"
  /\ \E ok \in BOOLEAN :
       /\ op_execs_[i] \/ ok
       /\ IF op_execs_[i]
            THEN /\ calls' = [calls EXCEPT ![i] = Inc(@)]
                 /\ trace' = Append(trace, i)
                 /\ data_entry_' = IF ok THEN RunClosure(data_entry_, i) ELSE data_entry_
            ELSE UNCHANGED <<calls, trace, data_entry_>>
       /\ IF ~ok
            THEN Throw /\ UNCHANGED i
            ELSE IF DebugGetBreak(i, index) \/ i + 1 >= NumNodes
              THEN pc' = "dg_copy" /\ UNCHANGED <<status, i, failed>>
              ELSE i' = i + 1 /\ UNCHANGED <<status, pc, failed>>
  /\ UNCHANGED <<graph, fn, func, args, number, k, index, ctx, duration_ms, time_per_op,
                 since_tbegin, since_op_tbegin, outs, region, closed_region,
                 clock_read, bench>>

\* line 151: data_entry_[eid].CopyTo(data_out)
DG_Copy ==
  /\ status = "running" /\ pc = "dg_copy"
  /\ dst' = [written |-> TRUE, data |-> data_entry_[DebugGetEid(index)].data]
  /\ End("returned")
  /\ UNCHANGED <<graph, data_entry_, fn, func, args, locals, rv, log, hist,
                 failed, bench>>

\* ------------------------------------------------------- RunIndividual
NumberArgs == 0 .. MaxNumber
RepeatArgs == 0 .. MaxRepeat
MinMsArgs == (-1 .. MaxMinMs) \cup {INT_MAX}

\* variant of line 186 with CHECK_GE(number, 0)
RunIndividualCheckWeak(n, r, m) == n >= 0 /\ r > 0 /\ m >= 0

\* lines 186-188: CHECK_GT(number, 0), CHECK_GT(repeat, 0), CHECK_GE(min_repeat_ms, 0)
RunIndividualCheck(n, r, m) == n > 0 /\ r > 0 /\ m >= 0

\* variant of line 58 with i <= repeat
RepeatCondInclusive(ii, r) == ii <= r

\* line 58: i < repeat
RepeatCond(ii, r) == ii < r

\* line 64: if (duration_ms > 0.0)
AdjustCond(d) == d > 0

\* variant of line 87 with duration_ms <= min_repeat_ms
RetryCondInclusive(d, m) == d <= m

\* line 87: while (duration_ms < min_repeat_ms)
RetryCond(d, m) == d < m

Max(a, b) == IF a >= b THEN a ELSE b

\* lines 66-67 in exact arithmetic, for number > 0 and duration_ms > 0:
\* min_repeat_ms / (duration_ms / number) + 1 is m * n / d + 1, whose integer
\* part is ((m div d) * n + ((m mod d) * n) div d) + 1; number * 1.618 has the
\* integer part (n * 1618) div 1000.
Projected(m, d, n) == (m \div d) * n + ((m % d) * n) \div d + 1
Grown(n) == (n * 1618) \div 1000
Adjusted(m, d, n) == Max(Projected(m, d, n), Grown(n))

\* whether the double of lines 66-67 is in the range of int.  For number > 0
\* this is m * n / d + 1 < 2^31 (number * 1.618 is then in range as well when
\* number is at most MaxIter).  number <= 0 arises only as INT_MIN, and with
\* it both arguments of std::max are below INT_MIN - 1.
AdjustedInRange(m, d, n) ==
  /\ n > 0
  /\ (m \div d) <= INT_MAX \div n
  /\ (m \div d) * n <= INT_MAX - 1 - ((m % d) * n) \div d

\* line 65: static_cast<int> of the double.  Out of the range of int the
\* conversion is undefined: x86-64 gives INT_MIN, AArch64 saturates.
StaticCastInt(m, d, n) ==
  IF AdjustedInRange(m, d, n) THEN {Adjusted(m, d, n)} ELSE {INT_MIN, INT_MAX}

\* variant of lines 64-67 that grows `number` on every attempt
NextNumberAlways(m, d, n) == {Grown(n) + 1}

\* line 65-67: the values `number` can have after the adjustment
NextNumber(m, d, n) == IF AdjustCond(d) THEN StaticCastInt(m, d, n) ELSE {n}

\* variant of line 73 that takes the device of data_entry_[index]
RunIndividualCtxOfIndex(idx) == data_entry_[idx].ctx

\* line 73: the device a per-operator region syncs
RunIndividualCtx(idx) == data_entry_[entry_id(idx, 0)].ctx

ZeroTimes == [n \in Nodes |-> [num |-> 0, den |-> 1]]

\* variant of line 63 that keeps the accumulator
AttemptTimesKept(t) == t

\* line 63: std::fill(time_per_op.begin(), time_per_op.end(), 0)
AttemptTimes(t) == ZeroTimes

\* variant of line 71 that leaves out every other slot
NextIndexSkipping(idx) == idx + 2

\* line 71: ++index
NextIndex(idx) == idx + 1

\* closures with index below f, in list order
RECURSIVE ClosuresBelow(_)
ClosuresBelow(f) ==
  IF f <= 0 THEN <<>>
  ELSE IF op_execs_[f - 1] THEN Append(ClosuresBelow(f - 1), f - 1)
  ELSE ClosuresBelow(f - 1)

RECURSIVE RunSeq(_, _)
RunSeq(data, s) == IF s = <<>> THEN data ELSE RunSeq(RunClosure(data, Head(s)), Tail(s))

InSeq(x, s) == \E j \in 1 .. Len(s) : s[j] = x

CallRunIndividual ==
  \E n \in NumberArgs, r \in RepeatArgs, m \in MinMsArgs :
    Call("run_individual",
         [NoArgs EXCEPT !.number = n, !.repeat = r, !.min_repeat_ms = m], "ri_check")

\* lines 183-189: the dispatcher's checks, then the call of RunIndividual
RI_Check ==
  /\ status = "running" /\ pc = "ri_check"
  /\ IF RunIndividualCheck(args.number, args.repeat, args.min_repeat_ms)
       THEN number' = args.number /\ pc' = "ri_warmup" /\ UNCHANGED status
       ELSE End("fatal") /\ UNCHANGED number
  /\ UNCHANGED <<graph, data_entry_, fn, func, args, i, k, index, ctx, duration_ms,
                 time_per_op, since_tbegin, since_op_tbegin, outs, hist,
                 failed, bench>>

\* lines 55-57: the warm-up GraphRuntime::Run() and the accumulator.  The
\* pass runs every closure in list order; the closure at f, if any, fails.
RI_Warmup ==
  /\ status = "running" /\ pc = "ri_warmup"
  /\ \E f \in {n \in Nodes : op_execs_[n]} \cup {NumNodes} :
       /\ data_entry_' = RunSeq(data_entry_, ClosuresBelow(f))
       /\ trace' = ClosuresBelow(IF f < NumNodes THEN f + 1 ELSE f)
       /\ calls' = [n \in Nodes |-> IF InSeq(n, trace') THEN Inc(calls[n]) ELSE calls[n]]
       /\ IF f < NumNodes
            THEN Throw /\ UNCHANGED <<time_per_op, i>>
            ELSE /\ time_per_op' = ZeroTimes /\ i' = 0
                 /\ pc' = "ri_repeat" /\ UNCHANGED <<status, failed>>
  /\ UNCHANGED <<graph, fn, func, args, number, k, index, ctx, duration_ms,
                 since_tbegin, since_op_tbegin, outs, region, closed_region,
                 clock_read, bench>>

\* lines 58-61: the head of the repeat loop
RI_Repeat ==
  /\ status = "running" /\ pc = "ri_repeat"
  /\ IF RepeatCond(i, args.repeat)
       THEN duration_ms' = 0 /\ pc' = "ri_attempt" /\ UNCHANGED status
       ELSE End("returned") /\ UNCHANGED duration_ms
  /\ retry' = FALSE
  /\ UNCHANGED <<graph, data_entry_, fn, func, args, number, i, k, index, ctx,
                 time_per_op, since_tbegin, since_op_tbegin, outs, hist,
                 failed, accepted, att_ms, att_calls, discarded>>

\* lines 63-70: an attempt starts: the accumulator is zeroed, `number` is
\* adjusted, the begin timestamp is taken
RI_Attempt ==
  /\ status = "running" /\ pc = "ri_attempt"
  /\ time_per_op' = AttemptTimes(time_per_op)
  /\ att_ms' = [n \in Nodes |-> 0] /\ att_calls' = [n \in Nodes |-> 0]
  /\ discarded' = (discarded \/ \E n \in Nodes : time_per_op[n].num > 0)
  /\ number' \in NextNumber(args.min_repeat_ms, duration_ms, number)
  /\ since_tbegin' = 0 /\ clock_read' = TRUE
  /\ k' = 0 /\ index' = 0 /\ trace' = <<>>
  /\ IF number' > MaxIter
       THEN End("beyond")
       ELSE pc' = "ri_loop" /\ UNCHANGED status
  /\ UNCHANGED <<graph, data_entry_, fn, func, args, i, ctx, duration_ms,
                 since_op_tbegin, outs, calls, region, closed_region,
                 failed, retry, accepted>>

\* line 71-72: a slot without a closure is passed over
RI_Skip ==
  /\ status = "running" /\ pc = "ri_loop"
  /\ k < number /\ index < NumNodes /\ ~op_execs_[index]
  /\ index' = NextIndex(index)
  /\ UNCHANGED <<graph, data_entry_, status, fn, func, pc, args, number, i, k, ctx,
                 duration_ms, time_per_op, since_tbegin, since_op_tbegin, outs, hist,
                 failed, bench>>

\* lines 73-75: the region's device, its begin timestamp, the closure
RI_Op ==
  /\ status = "running" /\ pc = "ri_loop"
  /\ k < number /\ index < NumNodes /\ op_execs_[index]
  /\ ctx' = RunIndividualCtx(index)
  /\ since_op_tbegin' = 0
  /\ calls' = [calls EXCEPT ![index] = Inc(@)]
  /\ trace' = Append(trace, index)
  /\ region' = <<Ev("call", index)>>
  /\ att_calls' = [att_calls EXCEPT ![index] = Inc(@)]
  /\ \/ /\ data_entry_' = RunClosure(data_entry_, index)
        /\ pc' = "ri_sync" /\ UNCHANGED <<status, failed>>
     \/ /\ Throw /\ UNCHANGED data_entry_
  /\ UNCHANGED <<graph, fn, func, args, number, i, k, index, duration_ms, time_per_op,
                 since_tbegin, outs, closed_region, clock_read,
                 retry, accepted, att_ms, discarded>>

\* line 76: CVMSynchronize(ctx.device_type, ctx.device_id, nullptr)
RI_Sync ==
  /\ status = "running" /\ pc = "ri_sync"
  /\ \E d \in 0 .. MaxDelta :
       /\ since_op_tbegin' = since_op_tbegin + d
       /\ since_tbegin' = since_tbegin + d
  /\ region' = Append(region, Ev("sync", ctx))
  /\ pc' = "ri_optend"
  /\ UNCHANGED <<graph, data_entry_, status, fn, func, args, number, i, k, index, ctx,
                 duration_ms, time_per_op, outs, calls, trace, closed_region,
                 clock_read, failed, bench>>

\* lines 77-80: the region's end timestamp, added to the accumulator
RI_OpEnd ==
  /\ status = "running" /\ pc = "ri_optend"
  /\ closed_region' = [valid |-> TRUE, idx |-> index, events |-> region]
  /\ time_per_op' = [time_per_op EXCEPT ![index].num = @ + since_op_tbegin]
  /\ att_ms' = [att_ms EXCEPT ![index] = @ + since_op_tbegin]
  /\ index' = NextIndex(index)
  /\ pc' = "ri_loop"
  /\ UNCHANGED <<graph, data_entry_, status, fn, func, args, number, i, k, ctx,
                 duration_ms, since_tbegin, since_op_tbegin, outs, calls, trace,
                 region, clock_read, failed, retry, accepted, att_calls, discarded>>

\* line 70: all slots done, the next iteration
RI_NextIter ==
  /\ status = "running" /\ pc = "ri_loop"
  /\ k < number /\ index = NumNodes
  /\ k' = k + 1 /\ index' = 0 /\ trace' = <<>>
  /\ UNCHANGED <<graph, data_entry_, status, fn, func, pc, args, number, i, ctx,
                 duration_ms, time_per_op, since_tbegin, since_op_tbegin, outs,
                 calls, region, closed_region, clock_read, failed, bench>>

\* lines 84-87: the end timestamp of the attempt and the loop condition
RI_Tend ==
  /\ status = "running" /\ pc = "ri_loop"
  /\ ~(k < number)
  /\ \E d \in 0 .. MaxDelta :
       /\ since_tbegin' = since_tbegin + d
       /\ duration_ms' = since_tbegin + d
  /\ pc' = IF RetryCond(duration_ms', args.min_repeat_ms) THEN "ri_attempt" ELSE "ri_report"
  /\ retry' = (retry \/ pc' = "ri_attempt")
  /\ UNCHANGED <<graph, data_entry_, status, fn, func, args, number, i, k, index, ctx,
                 time_per_op, since_op_tbegin, outs, hist,
                 failed, accepted, att_ms, att_calls, discarded>>

\* lines 89-96: the report block of repeat i; time_per_op[index] /= number
RECURSIVE OpLines(_, _)
OpLines(n, op) ==
  IF n >= NumNodes THEN <<>>
  ELSE IF op_execs_[n]
    THEN <<[kind |-> "Op", n |-> op, node |-> n]>> \o OpLines(n + 1, op + 1)
    ELSE OpLines(n + 1, op)

RI_Report ==
  /\ status = "running" /\ pc = "ri_report"
  /\ log' = log \o <<[kind |-> "Repeat", n |-> i, node |-> 0]>> \o OpLines(0, 0)
  /\ time_per_op' =
       [n \in Nodes |->
          IF op_execs_[n] THEN [time_per_op[n] EXCEPT !.den = @ * number]
          ELSE time_per_op[n]]
  /\ i' = i + 1
  /\ accepted' = number
  /\ pc' = "ri_repeat"
  /\ UNCHANGED <<graph, data_entry_, status, fn, func, args, number, k, index, ctx,
                 duration_ms, since_tbegin, since_op_tbegin, rv, dst, hist,
                 failed, retry, att_ms, att_calls, discarded>>

Next ==
  \/ CallDebugRun
  \/ DR_Begin
  \/ DR_Op
  \/ DR_Sync
  \/ DR_End
  \/ CallGetOutputByLayer
  \/ GL_Body
  \/ CallDebugGetOutput
  \/ DG_Begin
  \/ DG_Step
  \/ DG_Copy
  \/ CallRunIndividual
  \/ RI_Check
  \/ RI_Warmup
  \/ RI_Repeat
  \/ RI_Attempt
  \/ RI_Skip
  \/ RI_Op
  \/ RI_Sync
  \/ RI_OpEnd
  \/ RI_NextIter
  \/ RI_Tend
  \/ RI_Report
  \/ CallOther
  \/ HostReturn

Spec == Init /\ [][Next]_vars

\* the host calls only the inspection entry points
NextInspect ==
  \/ CallDebugRun
  \/ DR_Begin
  \/ DR_Op
  \/ DR_Sync
  \/ DR_End
  \/ CallGetOutputByLayer
  \/ GL_Body
  \/ CallDebugGetOutput
  \/ DG_Begin
  \/ DG_Step
  \/ DG_Copy
  \/ CallOther
  \/ HostReturn

InspectSpec == Init /\ [][NextInspect]_vars

\* a call in progress takes its next step
LiveSpec == Init /\ [][Next]_vars /\ WF_vars(Next)

\* ======================================================= the properties
Ended == status \notin {"idle", "running"}
Ascending(s) == \A j \in 1 .. (Len(s) - 1) : s[j] < s[j + 1]
SetOf(s) == {s[j] : j \in 1 .. Len(s)}
ClosuresUpTo(idx) == {n \in Nodes : n <= idx /\ op_execs_[n]}
NodesNamed(nm) == {n \in Nodes : node_name[n] = nm}
Least(S) == CHOOSE n \in S : \A o \in S : n <= o

\* C1: when debug_get_output(i, dst) has returned, dst holds the bytes that
\* the storage entry entry_id(i, 0) holds after a full forward pass, i.e.
\* the entry copied is entry_id(i, 0).
C1_DstIsLayerOutput ==
  (fn = "debug_get_output" /\ status = "returned") =>
    /\ dst.written
    /\ dst.data = RunFrom(data_entry_, 0)[entry_id(index, 0)].data

\* C2: in a debug_get_output call whose target index is valid, the closures
\* invoked so far are closures of nodes 0..index, each once, in ascending
\* order; once the loop is left they are all of them; none has an index
\* above the target; the destination is written only after that.
C2_PartialRun ==
  (fn = "debug_get_output" /\ pc # "dg_check" /\ status # "fatal") =>
    /\ Ascending(trace)
    /\ SetOf(trace) \subseteq ClosuresUpTo(index)
    /\ \A n \in Nodes : calls[n] = IF n \in SetOf(trace) THEN 1 ELSE 0
    /\ (pc = "dg_copy" \/ status = "returned") => SetOf(trace) = ClosuresUpTo(index)
    /\ dst.written => (status = "returned" /\ SetOf(trace) = ClosuresUpTo(index))
    /\ status = "returned" => dst.written

\* C2's case: a call by name has returned, it ran a closure, and a closure
\* after the target exists and was not run.
C2_Witness ==
  /\ fn = "debug_get_output" /\ status = "returned" /\ args.by_name
  /\ trace # <<>>
  /\ \E n \in Nodes : n > index /\ op_execs_[n] /\ calls[n] = 0

\* C4 as stated: debug_run(i) on a slot without a closure returns exactly 0
\* and has not read the clock.
C4_ZeroWithoutClock ==
  (fn = "debug_run" /\ status = "returned" /\ ~op_execs_[index]) =>
    /\ rv.val = 0
    /\ ~clock_read

\* C4 as amended: debug_run(i) on a slot without a closure invokes no
\* closure, reads the clock around one sync on the device of entry_id(i, 0),
\* and returns the time that passed between the two reads, which is not
\* negative.
C4_ElapsedOfSync ==
  (fn = "debug_run" /\ status = "returned" /\ ~op_execs_[index]) =>
    /\ trace = <<>> /\ \A n \in Nodes : calls[n] = 0
    /\ clock_read
    /\ closed_region.valid
    /\ closed_region.events = <<Ev("sync", data_entry_[entry_id(index, 0)].ctx)>>
    /\ rv.kind = "double"
    /\ rv.val = since_tbegin /\ rv.val >= 0

\* C4's case: debug_run on a slot without a closure has returned a time
\* above zero.
C4_Witness ==
  /\ fn = "debug_run" /\ status = "returned" /\ ~op_execs_[index]
  /\ rv.val > 0

\* C9: a call of debug_run, debug_get_output or get_output_by_layer with an
\* index outside [0, N) ends in a fatal assertion, with no closure invoked,
\* nothing returned and the destination not written.
C9_OutOfRangeIsFatal ==
  (/\ Ended
   /\ fn \in {"debug_run", "debug_get_output", "get_output_by_layer"}
   /\ ~args.by_name
   /\ args.index \notin Nodes) =>
    /\ status = "fatal"
    /\ trace = <<>>
    /\ rv = NoRv
    /\ ~dst.written

\* C10: GetNodeIndex returns the smallest index of a node with the name and
\* fails exactly when there is none; debug_get_output with a string selector
\* ends fatally, before any closure, when there is none, and otherwise has
\* that smallest index as its target.
C10_FirstMatch ==
  /\ \A nm \in NameArgs :
       GetNodeIndex(nm) = IF NodesNamed(nm) = {} THEN -1 ELSE Least(NodesNamed(nm))
  /\ (fn = "debug_get_output" /\ args.by_name /\ pc # "dg_check") =>
       IF NodesNamed(args.name) = {}
         THEN status = "fatal" /\ trace = <<>> /\ ~dst.written
         ELSE status # "fatal" /\ index = Least(NodesNamed(args.name))

\* C10's case: a call by a name that two nodes share has returned.
C10_Witness ==
  /\ fn = "debug_get_output" /\ args.by_name /\ status = "returned"
  /\ Cardinality(NodesNamed(args.name)) >= 2
  /\ dst.written

IsHeader(l) == l.kind = "Repeat"
Headers == SelectSeq(log, IsHeader)

\* C3: when the end timestamp of the timed region of a closure i is about to
\* be read, and when it has been read, what happened since the region's
\* begin timestamp is: closure i was invoked, then the device of
\* entry_id(i, 0) was synced, and nothing else.  This holds in debug_run
\* and in every per-operator region of run_individual.
C3_SyncClosesRegion ==
  /\ (closed_region.valid /\ op_execs_[closed_region.idx]) =>
       closed_region.events =
         <<Ev("call", closed_region.idx),
           Ev("sync", data_entry_[entry_id(closed_region.idx, 0)].ctx)>>
  /\ (pc \in {"dr_tend", "ri_optend"} /\ op_execs_[index]) =>
       region = <<Ev("call", index), Ev("sync", data_entry_[entry_id(index, 0)].ctx)>>

\* C3's case: run_individual has closed the region of a closure whose first
\* output entry is not the entry numbered like the node and lies on another
\* device.
C3_Witness ==
  /\ fn = "run_individual" /\ closed_region.valid
  /\ op_execs_[closed_region.idx]
  /\ data_entry_[entry_id(closed_region.idx, 0)].ctx # data_entry_[closed_region.idx].ctx

\* C5: the report blocks a run_individual call has emitted are headed
\* Repeat: 0, Repeat: 1, ... in that order, each once, never more than
\* `repeat` of them, and exactly `repeat` of them when the call has returned.
C5_RepeatBlocks ==
  fn = "run_individual" =>
    /\ \A j \in 1 .. Len(Headers) : Headers[j].n = j - 1
    /\ Len(Headers) <= Max(args.repeat, 0)
    /\ status = "returned" => Len(Headers) = args.repeat

\* C5's case: a call with the largest `repeat` has returned after a retry
\* that raised `number`.
C5_Witness ==
  /\ fn = "run_individual" /\ status = "returned"
  /\ args.repeat = MaxRepeat /\ number > args.number

\* C6: in run_individual(number, repeat, 0) a timed region starts only after
\* the warm-up has invoked every closure once, `number` stays what the
\* caller passed, and when the call has returned every closure has been
\* invoked 1 + number * repeat times and no slot without a closure was.
C6_InvocationCount ==
  (/\ fn = "run_individual" /\ args.min_repeat_ms = 0
   /\ pc \notin {"ri_check", "ri_warmup"} /\ status \notin {"fatal", "threw"}) =>
    /\ number = args.number
    /\ \A n \in Nodes :
         /\ ~op_execs_[n] => calls[n] = 0
         /\ op_execs_[n] => (calls[n] >= 1 /\ calls[n] <= 1 + args.number * args.repeat)
         /\ (op_execs_[n] /\ ~clock_read) => calls[n] = 1
         /\ (op_execs_[n] /\ status = "returned") =>
              calls[n] = 1 + args.number * args.repeat

\* C6's case: run_individual(MaxNumber, MaxRepeat, 0) has returned on a graph
\* with a closure and with a slot without one.
C6_Witness ==
  /\ fn = "run_individual" /\ status = "returned"
  /\ args.min_repeat_ms = 0 /\ args.number = MaxNumber /\ args.repeat = MaxRepeat
  /\ \E n, o \in Nodes : op_execs_[n] /\ ~op_execs_[o]

\* C7: a run_individual call that has passed its argument checks ends.
C7_Terminates ==
  (fn = "run_individual" /\ status = "running" /\ pc = "ri_warmup") ~> (status # "running")

\* C8: a run_individual call with number <= 0, repeat <= 0 or
\* min_repeat_ms < 0 ends fatally at the dispatcher's checks: no closure is
\* invoked, the clock is not read and no line is logged.
C8_InvalidArgsFatal ==
  (/\ fn = "run_individual"
   /\ (args.number <= 0 \/ args.repeat <= 0 \/ args.min_repeat_ms < 0)) =>
    /\ (status = "running" /\ pc = "ri_check") \/ status = "fatal"
    /\ \A n \in Nodes : calls[n] = 0
    /\ trace = <<>> /\ log = <<>> /\ ~clock_read

\* C8's case: run_individual(0, 1, 0) has ended fatally on a graph with a
\* closure.
C8_Witness ==
  /\ fn = "run_individual" /\ status = "fatal"
  /\ args.number = 0 /\ args.repeat = 1 /\ args.min_repeat_ms = 0
  /\ \E n \in Nodes : op_execs_[n]

C12_Dispatch ==
  /\ \A nm \in FnArgs :
       IF nm \in DebugNames
         THEN GetFunction(nm) = [owner |-> "debug", op |-> nm]
         ELSE GetFunction(nm) = BaseGetFunction(nm) /\ GetFunction(nm).owner # "debug"
  /\ (fn \in DebugNames) => func = [owner |-> "debug", op |-> fn]
  /\ (fn # "" /\ fn \notin DebugNames) =>
       /\ func = BaseGetFunction(fn) /\ func.owner # "debug"
       /\ status = "returned"
       /\ trace = <<>> /\ \A n \in Nodes : calls[n] = 0
       /\ region = <<>> /\ ~closed_region.valid /\ ~clock_read
       /\ rv = NoRv /\ ~dst.written /\ log = <<>>

\* C12's case: the host has asked for set_input and holds the base
\* executor's function, on a graph that has a closure.
C12_Witness ==
  /\ fn = "set_input" /\ status = "returned"
  /\ func = [owner |-> "base", op |-> "set_input"]
  /\ \E n \in Nodes : op_execs_[n]

\* positions inside the timed loop of an attempt
TimedPcs == {"ri_loop", "ri_sync", "ri_optend"}
Closures == {n \in Nodes : op_execs_[n]}
InAttempt == fn = "run_individual" /\ status = "running" /\ pc \in TimedPcs
AtReport == fn = "run_individual" /\ status = "running" /\ pc = "ri_report"

\* C13 as stated: the first attempt of every repeat runs with the `number`
\* the caller passed, and when it is the accepted attempt it has made
\* exactly that many iterations.
C13_FirstAttemptPassed ==
  /\ (InAttempt /\ ~retry) => number = args.number
  /\ (AtReport /\ ~retry) => (number = args.number /\ k = args.number)

\* C13 as amended: the first attempt of repeat 0 runs with the `number` the
\* caller passed; the first attempt of a later repeat runs with the `number`
\* of the accepted attempt of the repeat before it.  A first attempt that is
\* accepted has made exactly that many iterations, each closure invoked
\* that many times.
C13_FirstAttemptCarried ==
  /\ (InAttempt /\ ~retry) =>
       /\ number = (IF i = 0 THEN args.number ELSE accepted)
       /\ k <= number
  /\ (AtReport /\ ~retry) =>
       /\ number = (IF i = 0 THEN args.number ELSE accepted)
       /\ k = number
       /\ \A n \in Closures : att_calls[n] = number

\* C13's case: the first attempt of a later repeat has been accepted after
\* running more iterations than the caller passed.
C13_Witness ==
  /\ AtReport /\ ~retry /\ i >= 1
  /\ number > args.number
  /\ Closures # {}

\* a step that starts a retry: the adjustment of lines 64-67 after an
\* attempt of the same repeat
RetryStarts == fn = "run_individual" /\ status = "running" /\ pc = "ri_attempt" /\ retry

\* n2 >= 1.618 * n, for the counts n an attempt can have had (a count of zero
\* or less is INT_MIN, and every int is at least 1.618 * INT_MIN)
GrownByPhi(n, n2) == IF n > 0 THEN n2 >= (n * 1618 + 999) \div 1000 ELSE TRUE

\* n2 >= m / (d / n) + 1 in exact arithmetic.  After an attempt of n > 0
\* iterations measured as 0 ms the quotient has no finite value, and when
\* it is 2^31 or more no int reaches it.
AtLeastProjected(m, d, n, n2) ==
  IF n <= 0 THEN TRUE
  ELSE IF d = 0 THEN FALSE
  ELSE IF ~AdjustedInRange(m, d, n) THEN FALSE
  ELSE n2 > (m \div d) * n + ((m % d) * n + d - 1) \div d

\* C14: every retry of run_individual runs with a count that is at least
\* 1.618 times the count of the attempt before it and at least the projected
\* count min_repeat_ms / (duration_ms / number) + 1 of that attempt.
C14_RetryGrowth ==
  [][RetryStarts =>
       /\ GrownByPhi(number, number')
       /\ AtLeastProjected(args.min_repeat_ms, duration_ms, number, number')]_vars

\* C15: every retry of run_individual runs with a count strictly larger than
\* the count of the attempt before it, whatever that attempt measured.
C15_NoFixedPoint ==
  [][RetryStarts => number' > number]_vars

\* C16: during an attempt the accumulator of every slot holds the ms
\* measured for its closure since that attempt began and nothing else; the
\* report is made after each closure was invoked `number` times in the
\* attempt, and the value reported for a closure is that sum divided by the
\* attempt's `number`.
C16_ReportedMean ==
  /\ (InAttempt \/ AtReport) =>
       \A n \in Nodes : time_per_op[n] = [num |-> att_ms[n], den |-> 1]
  /\ AtReport => (number > 0 /\ \A n \in Closures : att_calls[n] = number)
  /\ (fn = "run_individual" /\ i >= 1 /\ (pc = "ri_repeat" \/ status = "returned")) =>
       \A n \in Closures :
         /\ time_per_op[n] = [num |-> att_ms[n], den |-> number]
         /\ att_calls[n] = number

\* C16's case: the first block has been reported from a retry that measured
\* time above zero for a closure, after time above zero measured by an
\* under-duration attempt was zeroed away.
C16_Witness ==
  /\ fn = "run_individual" /\ status = "running" /\ pc = "ri_repeat" /\ i = 1
  /\ retry /\ discarded
  /\ \E n \in Closures : time_per_op[n].num > 0 /\ time_per_op[n].den > 1

\* the step that ends an attempt: the end timestamp of line 84 is read
AttemptEnds ==
  /\ fn = "run_individual" /\ status = "running" /\ pc = "ri_loop"
  /\ pc' \in {"ri_attempt", "ri_report"}

\* C17: the attempt that ends is followed by a retry of the same repeat
\* exactly when its duration_ms is below min_repeat_ms and by the report
\* otherwise; a retry starts, and a report is made, only in that way; and the
\* log grows only by the report of an attempt whose duration_ms is at least
\* min_repeat_ms, by the block of the repeat in progress.
C17_RetryIffUnder ==
  /\ [][AttemptEnds =>
          /\ (pc' = "ri_attempt") <=> (duration_ms' < args.min_repeat_ms)
          /\ (pc' = "ri_report") <=> (duration_ms' >= args.min_repeat_ms)
          /\ i' = i /\ log' = log]_vars
  /\ []((RetryStarts \/ (InAttempt /\ retry)) => Len(Headers) = i)
  /\ [](RetryStarts => duration_ms < args.min_repeat_ms)
  /\ [](AtReport => duration_ms >= args.min_repeat_ms)
  /\ [][(fn = "run_individual" /\ status = "running" /\ log' # log) =>
          /\ pc = "ri_report" /\ duration_ms >= args.min_repeat_ms
          /\ Len(Headers) = i /\ i' = i + 1
          /\ Len(log') = Len(log) + 1 + Cardinality(Closures)]_vars

\* C17's case: a report is about to be made of a retry whose duration_ms is
\* exactly min_repeat_ms.
C17_Witness ==
  /\ AtReport /\ retry
  /\ duration_ms = args.min_repeat_ms
  /\ Closures # {}

\* C18: inside an attempt of run_individual the closures invoked since the
\* iteration began are the closures of the slots already passed, each once,
\* in ascending order of node index; an iteration ends only after slot N - 1,
\* when every closure of the graph has been invoked once in that order, and
\* the next iteration starts at slot 0.
C18_CanonicalOrder ==
  /\ [](InAttempt =>
          /\ index <= NumNodes
          /\ trace = ClosuresBelow(IF pc = "ri_loop" THEN index ELSE index + 1)
          /\ Ascending(trace)
          /\ pc # "ri_loop" => (op_execs_[index] /\ trace[Len(trace)] = index))
  /\ [][(InAttempt /\ k' # k /\ pc' = "ri_loop") =>
          /\ index = NumNodes /\ SetOf(trace) = Closures /\ Len(trace) = Cardinality(Closures)
          /\ k' = k + 1 /\ index' = 0 /\ trace' = <<>>]_vars

\* C18's case: in a later repeat, a retry has finished its second
\* iteration over a graph whose slots all hold closures.
C18_Witness ==
  /\ InAttempt /\ pc = "ri_loop" /\ index = NumNodes
  /\ i >= 1 /\ retry /\ k >= 1
  /\ Len(trace) = NumNodes

\* C19: once a closure has failed in a debug_run, run_individual or
\* debug_get_output call, the call has ended with that failure: nothing is
\* returned, the destination is not written, no block was logged for the
\* repeat in progress, and the only step that follows is the host taking
\* the failure, so no closure is invoked, no attempt is started and no line
\* is logged after it.
C19_FailurePropagates ==
  /\ [](failed =>
          /\ status = "threw" /\ pc = ""
          /\ fn \in {"debug_run", "run_individual", "debug_get_output"}
          /\ trace # <<>> /\ op_execs_[trace[Len(trace)]]
          /\ rv = NoRv /\ ~dst.written
          /\ fn = "run_individual" => Len(Headers) = i
          /\ fn # "run_individual" => log = <<>>)
  /\ [](status = "threw" => failed)
  /\ [][failed =>
          /\ status' = "idle" /\ ~failed'
          /\ data_entry_' = data_entry_]_vars

\* C19's case: a closure has failed in a retry of a later repeat of
\* run_individual, after a block was logged.
C19_Witness ==
  /\ failed /\ fn = "run_individual"
  /\ retry /\ i >= 1 /\ Len(Headers) >= 1
  /\ k >= 1

\* C20: in a run_individual call that has passed its argument checks,
\* `number` is positive at every point, and whenever a retry adjusts it the
\* value max(min_repeat_ms / (duration_ms / number) + 1, number * 1.618)
\* that is converted to int is at most 2^31 - 1.
C20_CountFitsInt ==
  (fn = "run_individual" /\ status = "running" /\ pc # "ri_check") =>
    /\ number > 0
    /\ (pc = "ri_attempt" /\ AdjustCond(duration_ms)) =>
         AdjustedInRange(args.min_repeat_ms, duration_ms, number)

====
